---- MODULE Spec2Model ----
(***************************************************************************)
(* State-machine model of mcp-server-sqlite (src/src/sqlite.ts and the     *)
(* tool handlers of src/src/index.ts).                                     *)
(*                                                                         *)
(* Text (SQL, table names, file names, paths) is modelled as sequences of  *)
(* one-character strings, so that trim(), the mode-gate regular            *)
(* expression, identifier interpolation, LIKE and sorting are computed     *)
(* character by character as the code and the engine compute them.         *)
(***************************************************************************)
EXTENDS Integers, Sequences, FiniteSets, TLC

VARIABLES fs, conns, pc, cur, resp, parked

vars == <<fs, conns, pc, cur, resp, parked>>

(***************************************************************************)
(* Bounds of the model.                                                    *)
(***************************************************************************)
\* Row ids that INSERT / DELETE statements of the inputs may name: 1..MaxRowId.
MaxRowId == 2

(***************************************************************************)
(* Characters.                                                             *)
(***************************************************************************)
LowerChars ==
  <<"a","b","c","d","e","f","g","h","i","j","k","l","m",
    "n","o","p","q","r","s","t","u","v","w","x","y","z">>

UpperChars ==
  <<"A","B","C","D","E","F","G","H","I","J","K","L","M",
    "N","O","P","Q","R","S","T","U","V","W","X","Y","Z">>

DigitChars == <<"0","1","2","3","4","5","6","7","8","9">>

\* The characters of the model in code-unit (ASCII) order, the order used by
\* Array.prototype.sort() on strings and by the engine's BINARY collation.
CharOrder ==
  <<"\t", "\n", "\r", " ", "\"", "(", ")", "*", ".", "/">> \o DigitChars
    \o UpperChars \o <<"_">> \o LowerChars

Range(s) == { s[i] : i \in 1..Len(s) }

IndexOf(c, s) == CHOOSE i \in 1..Len(s) : s[i] = c

Code(c) == IndexOf(c, CharOrder)

IsLower(c) == c \in Range(LowerChars)
IsUpper(c) == c \in Range(UpperChars)
IsDigit(c) == c \in Range(DigitChars)

\* Case canonicalisation of an ignore-case regular expression and of LIKE:
\* ASCII letters fold, every other character is itself.
Upper(c) == IF IsLower(c) THEN UpperChars[IndexOf(c, LowerChars)] ELSE c

UpperSeq(s) == [i \in 1..Len(s) |-> Upper(s[i])]

\* \w of a regular expression.
IsWordChar(c) == IsLower(c) \/ IsUpper(c) \/ IsDigit(c) \/ c = "_"

\* White space removed by String.prototype.trim() (the ASCII part of it).
IsWhiteSpace(c) == c \in {" ", "\t", "\n", "\r"}

RECURSIVE TrimStart(_)
TrimStart(s) ==
  IF s # <<>> /\ IsWhiteSpace(Head(s)) THEN TrimStart(Tail(s)) ELSE s

RECURSIVE TrimEnd(_)
TrimEnd(s) ==
  IF s # <<>> /\ IsWhiteSpace(s[Len(s)])
    THEN TrimEnd(SubSeq(s, 1, Len(s) - 1))
    ELSE s

\* sql.trim()
Trim(s) == TrimEnd(TrimStart(s))

\* Code-unit lexicographic "less than" on text.
RECURSIVE LexLess(_, _)
LexLess(a, b) ==
  IF a = <<>> THEN b # <<>>
  ELSE IF b = <<>> THEN FALSE
  ELSE IF Head(a) = Head(b) THEN LexLess(Tail(a), Tail(b))
  ELSE Code(Head(a)) < Code(Head(b))

(***************************************************************************)
(* Error messages: the text `pre + arg + post`, with arg a piece of text   *)
(* the program or the engine splices into the message.                     *)
(***************************************************************************)
Msg(pre, arg, post) == [pre |-> pre, arg |-> arg, post |-> post]

NoMsg == Msg("", <<>>, "")

(***************************************************************************)
(* Mode gate (query, sqlite.ts lines 46-47).                               *)
(***************************************************************************)
KwSELECT == <<"S","E","L","E","C","T">>
KwPRAGMA == <<"P","R","A","G","M","A">>
KwEXPLAIN == <<"E","X","P","L","A","I","N">>
KwWITH == <<"W","I","T","H">>
KwINSERT == <<"I","N","S","E","R","T">>
KwDELETE == <<"D","E","L","E","T","E">>
KwCREATE == <<"C","R","E","A","T","E">>

\* The alternatives of the regular expression, in its order.
GateKeywords == <<KwSELECT, KwPRAGMA, KwEXPLAIN, KwWITH>>

\* ^k under the i flag: the text starts with k, letters compared folded.
MatchesPrefixNoCase(inp, k) ==
  /\ Len(inp) >= Len(k)
  /\ \A i \in 1..Len(k) : Upper(inp[i]) = Upper(k[i])

\* \b after the first n characters of inp: exactly one of the characters on
\* the two sides of the position is a word character (no character: not one).
WordBoundaryAfter(inp, n) ==
  LET before == n >= 1 /\ n <= Len(inp) /\ IsWordChar(inp[n])
      after == n + 1 <= Len(inp) /\ IsWordChar(inp[n + 1])
  IN before # after

SelectRegexVariantNoBoundary(trimmed) ==
  \E j \in 1..Len(GateKeywords) : MatchesPrefixNoCase(trimmed, GateKeywords[j])

\* /^(SELECT|PRAGMA|EXPLAIN|WITH)\b/i.test(trimmed)
SelectRegex(trimmed) ==
  \E j \in 1..Len(GateKeywords) :
    /\ MatchesPrefixNoCase(trimmed, GateKeywords[j])
    /\ WordBoundaryAfter(trimmed, Len(GateKeywords[j]))

(***************************************************************************)
(* The database engine (better-sqlite3 over SQLite), as far as the program *)
(* uses it.  A database is a sequence of tables in creation order (the     *)
(* order of sqlite_master), each with its name and the set of its row ids, *)
(* and the user_version of the file header.  Every table has the single    *)
(* column  id INTEGER PRIMARY KEY.                                         *)
(*                                                                         *)
(* The statements of the inputs are written in a small dialect that the    *)
(* engine model reads word by word, keywords in any case:                  *)
(*    SELECT t           the rows of t                                     *)
(*    INSERT t n         insert the row with id n into t                   *)
(*    DELETE t n         delete the row with id n from t                   *)
(*    CREATE t           create table t                                    *)
(*    WITH INSERT t n    a CTE carrying an INSERT ... RETURNING            *)
(*    PRAGMA             read user_version                                 *)
(*    PRAGMA n           set user_version to n                             *)
(*    EXPLAIN <stmt>     the bytecode listing of <stmt>                    *)
(* Anything else is a syntax error.                                        *)
(***************************************************************************)
Table(name, rows) == [name |-> name, rows |-> rows]

Database(tables, version) == [tables |-> tables, userVersion |-> version]

EmptyDatabase == Database(<<>>, 0)

Min(S) == CHOOSE x \in S : \A y \in S : x <= y

\* Position of the table called name in the catalog, 0 when there is none.
TableIndex(db, name) ==
  LET hits == { i \in 1..Len(db.tables) : db.tables[i].name = name }
  IN IF hits = {} THEN 0 ELSE Min(hits)

HasTable(db, name) == TableIndex(db, name) # 0

RowsOf(db, name) == db.tables[TableIndex(db, name)].rows

WithRows(db, name, rows) ==
  [db EXCEPT !.tables[TableIndex(db, name)].rows = rows]

\* The words of a statement, split at white space.
FirstWordLen(s) ==
  LET ws == { i \in 1..Len(s) : IsWhiteSpace(s[i]) }
  IN IF ws = {} THEN Len(s) ELSE Min(ws) - 1

RECURSIVE Words(_)
Words(s) ==
  LET t == TrimStart(s)
  IN IF t = <<>> THEN <<>>
     ELSE <<SubSeq(t, 1, FirstWordLen(t))>>
            \o Words(SubSeq(t, FirstWordLen(t) + 1, Len(t)))

IsBareName(w) == w # <<>> /\ \A i \in 1..Len(w) : IsLower(w[i]) \/ w[i] = "_"

IsRowId(w) == Len(w) = 1 /\ IsDigit(w[1]) /\ w[1] # "0"

DigitVal(c) == IndexOf(c, DigitChars) - 1

Parsed(kind, table, id) ==
  [kind |-> kind, table |-> table, id |-> id, explain |-> FALSE]

SyntaxError == Parsed("syntax", <<>>, 0)

IsKeyword(w, k) == UpperSeq(w) = k

ParseSimple(w) ==
  IF w = <<>> THEN SyntaxError
  ELSE IF IsKeyword(w[1], KwSELECT) /\ Len(w) = 2 /\ IsBareName(w[2])
    THEN Parsed("select", w[2], 0)
  ELSE IF IsKeyword(w[1], KwINSERT) /\ Len(w) = 3 /\ IsBareName(w[2]) /\ IsRowId(w[3])
    THEN Parsed("insert", w[2], DigitVal(w[3][1]))
  ELSE IF IsKeyword(w[1], KwDELETE) /\ Len(w) = 3 /\ IsBareName(w[2]) /\ IsRowId(w[3])
    THEN Parsed("delete", w[2], DigitVal(w[3][1]))
  ELSE IF IsKeyword(w[1], KwCREATE) /\ Len(w) = 2 /\ IsBareName(w[2])
    THEN Parsed("create", w[2], 0)
  ELSE IF /\ IsKeyword(w[1], KwWITH) /\ Len(w) = 4 /\ IsKeyword(w[2], KwINSERT)
          /\ IsBareName(w[3]) /\ IsRowId(w[4])
    THEN Parsed("cte_insert", w[3], DigitVal(w[4][1]))
  ELSE IF IsKeyword(w[1], KwPRAGMA) /\ Len(w) = 1
    THEN Parsed("pragma_get", <<>>, 0)
  ELSE IF IsKeyword(w[1], KwPRAGMA) /\ Len(w) = 2 /\ IsRowId(w[2])
    THEN Parsed("pragma_set", <<>>, DigitVal(w[2][1]))
  ELSE SyntaxError

ParseWords(w) ==
  IF w # <<>> /\ IsKeyword(w[1], KwEXPLAIN)
    THEN LET inner == ParseSimple(Tail(w))
         IN IF inner.kind = "syntax" THEN SyntaxError
            ELSE [inner EXCEPT !.explain = TRUE]
    ELSE ParseSimple(w)

ParseSql(text) == ParseWords(Words(text))

\* Results of an engine call: the rows it returned and the database after it,
\* or the error it threw (the database then as it was).
EngineOk(rows, db) == [ok |-> TRUE, rows |-> rows, db |-> db, err |-> NoMsg]

EngineErr(db, msg) == [ok |-> FALSE, rows |-> <<>>, db |-> db, err |-> msg]

ReservedPrefix == <<"s","q","l","i","t","e","_">>

IsReservedName(name) ==
  Len(name) >= Len(ReservedPrefix)
    /\ SubSeq(name, 1, Len(ReservedPrefix)) = ReservedPrefix

\* Compiling a statement (sqlite3_prepare) of the given words, read as p: the
\* error it reports, NoMsg when the statement compiles.
CompileError(db, words, p) ==
  IF words = <<>>
    THEN Msg("The supplied SQL string contains no statements", <<>>, "")
  ELSE IF p.kind = "syntax"
    THEN Msg("near \"", words[1], "\": syntax error")
  ELSE IF p.kind \in {"select", "insert", "delete", "cte_insert"}
          /\ ~HasTable(db, p.table)
    THEN Msg("no such table: ", p.table, "")
  ELSE IF p.kind = "create" /\ IsReservedName(p.table)
    THEN Msg("object name reserved for internal use: ", p.table, "")
  ELSE IF p.kind = "create" /\ HasTable(db, p.table)
    THEN Msg("table ", p.table, " already exists")
  ELSE NoMsg

PrepareError(db, text) == CompileError(db, Words(text), ParseSql(text))

\* Statement.reader of better-sqlite3: the statement has result columns.
IsReader(p) == p.explain \/ p.kind \in {"select", "cte_insert", "pragma_get"}

\* The statement changes the database file when it runs.
IsWrite(p) ==
  ~p.explain /\ p.kind \in {"insert", "delete", "create", "cte_insert", "pragma_set"}

RECURSIVE SortedIds(_)
SortedIds(S) ==
  IF S = {} THEN <<>> ELSE <<Min(S)>> \o SortedIds(S \ {Min(S)})

RowsAsRecords(ids) == [i \in 1..Len(ids) |-> [id |-> ids[i]]]

ReadonlyDatabaseMsg == Msg("attempt to write a readonly database", <<>>, "")

\* Running a compiled statement to completion (sqlite3_step) on a connection
\* opened read-only or not.
Step(db, readonly, p) ==
  IF p.explain
    THEN EngineOk(<<[addr |-> 0, opcode |-> "Init"]>>, db)
  ELSE IF IsWrite(p) /\ readonly
    THEN EngineErr(db, ReadonlyDatabaseMsg)
  ELSE IF p.kind = "select"
    THEN EngineOk(RowsAsRecords(SortedIds(RowsOf(db, p.table))), db)
  ELSE IF p.kind = "pragma_get"
    THEN EngineOk(<<[user_version |-> db.userVersion]>>, db)
  ELSE IF p.kind = "pragma_set"
    THEN EngineOk(<<>>, [db EXCEPT !.userVersion = p.id])
  ELSE IF p.kind \in {"insert", "cte_insert"}
    THEN IF p.id \in RowsOf(db, p.table)
           THEN EngineErr(db, Msg("UNIQUE constraint failed: ", p.table, ".id"))
           ELSE EngineOk(IF p.kind = "cte_insert" THEN <<[id |-> p.id]>> ELSE <<>>,
                         WithRows(db, p.table, RowsOf(db, p.table) \cup {p.id}))
  ELSE IF p.kind = "delete"
    THEN EngineOk(<<>>, WithRows(db, p.table, RowsOf(db, p.table) \ {p.id}))
  ELSE \* create
    EngineOk(<<>>, [db EXCEPT !.tables = Append(@, Table(p.table, {}))])

\* db.prepare(text).all(): compile, refuse a statement without result
\* columns, run it and collect the rows.
AllOf(db, readonly, p, compileError) ==
  IF compileError # NoMsg THEN EngineErr(db, compileError)
  ELSE IF ~IsReader(p)
    THEN EngineErr(db, Msg("This statement does not return data. Use run() instead", <<>>, ""))
  ELSE Step(db, readonly, p)

PrepareAll(db, readonly, text) ==
  AllOf(db, readonly, ParseSql(text), PrepareError(db, text))

DropRows(r) == IF r.ok THEN EngineOk(<<>>, r.db) ELSE r

\* db.exec(text): compile and run every statement of the text (none when the
\* text is empty), dropping any rows.
ExecOf(db, readonly, p, compileError, empty) ==
  IF empty THEN EngineOk(<<>>, db)
  ELSE IF compileError # NoMsg THEN EngineErr(db, compileError)
  ELSE DropRows(Step(db, readonly, p))

ExecVariantCompileOnly(db, readonly, text) ==
  IF PrepareError(db, text) # NoMsg
    THEN EngineErr(db, PrepareError(db, text))
    ELSE EngineOk(<<>>, db)

Exec(db, readonly, text) ==
  ExecOf(db, readonly, ParseSql(text), PrepareError(db, text), Words(text) = <<>>)

(***************************************************************************)
(* Identifier interpolation and the catalog statements of schema and       *)
(* tableInfo.                                                              *)
(***************************************************************************)
Quote == "\""

\* `"${name}"` of the template literals: the name between two double quotes,
\* nothing in it escaped.
Interpolate(name) == <<Quote>> \o name \o <<Quote>>

\* The engine's tokenizer on text that starts with a double quote: the
\* identifier runs to the next double quote that is not doubled, and a doubled
\* one stands for one double quote.  ok is FALSE when the text ends first.
RECURSIVE ScanQuoted(_, _, _)
ScanQuoted(q, i, acc) ==
  IF i > Len(q) THEN [ok |-> FALSE, ident |-> acc, rest |-> <<>>]
  ELSE IF q[i] = Quote
    THEN IF i + 1 <= Len(q) /\ q[i + 1] = Quote
           THEN ScanQuoted(q, i + 2, Append(acc, Quote))
           ELSE [ok |-> TRUE, ident |-> acc, rest |-> SubSeq(q, i + 1, Len(q))]
  ELSE ScanQuoted(q, i + 1, Append(acc, q[i]))

ReadQuoted(q) == ScanQuoted(q, 2, <<>>)

\* The column of every table, as PRAGMA table_info reports it.
PragmaColumns ==
  <<[cid |-> 0, name |-> "id", type |-> "INTEGER", notnull |-> 0,
     dflt_value |-> "null", pk |-> 1]>>

\* db.prepare(`PRAGMA table_info(${arg})`).all(): the columns of the table the
\* argument names, no row when there is no such table.
PragmaTableInfo(db, arg) ==
  LET tok == ReadQuoted(arg)
  IN IF ~tok.ok THEN EngineErr(db, Msg("unrecognized token: ", arg, ""))
     ELSE IF TrimStart(tok.rest) # <<>>
       THEN EngineErr(db, Msg("near \"", tok.rest, "\": syntax error"))
     ELSE IF HasTable(db, tok.ident) THEN EngineOk(PragmaColumns, db)
     ELSE EngineOk(<<>>, db)

\* db.prepare(`SELECT COUNT(*) as count FROM ${arg}`).get(); a bare word after
\* the identifier is an alias.
CountQuery(db, arg) ==
  LET tok == ReadQuoted(arg)
      after == Words(tok.rest)
  IN IF ~tok.ok THEN EngineErr(db, Msg("unrecognized token: ", arg, ""))
     ELSE IF ~(after = <<>> \/ (Len(after) = 1 /\ IsBareName(after[1])))
       THEN EngineErr(db, Msg("near \"", tok.rest, "\": syntax error"))
     ELSE IF ~HasTable(db, tok.ident)
       THEN EngineErr(db, Msg("no such table: ", tok.ident, ""))
     ELSE EngineOk(<<[count |-> Cardinality(RowsOf(db, tok.ident))]>>, db)

\* The LIKE operator: % matches any run of characters, _ any one character,
\* letters compare folded.
RECURSIVE Like(_, _)
Like(pattern, s) ==
  IF pattern = <<>> THEN s = <<>>
  ELSE IF Head(pattern) = "%"
    THEN Like(Tail(pattern), s) \/ (s # <<>> /\ Like(pattern, Tail(s)))
  ELSE /\ s # <<>>
       /\ (Head(pattern) = "_" \/ Upper(Head(pattern)) = Upper(Head(s)))
       /\ Like(Tail(pattern), Tail(s))

\* 'sqlite_%'
InternalPattern == <<"s","q","l","i","t","e","_","%">>

\* ORDER BY name: ascending in the BINARY collation.
RECURSIVE InsertSorted(_, _)
InsertSorted(x, sorted) ==
  IF sorted = <<>> THEN <<x>>
  ELSE IF LexLess(Head(sorted), x) THEN <<Head(sorted)>> \o InsertSorted(x, Tail(sorted))
  ELSE <<x>> \o sorted

RECURSIVE SortText(_)
SortText(s) ==
  IF s = <<>> THEN <<>> ELSE InsertSorted(Head(s), SortText(Tail(s)))

OrderByVariantRowid(names) == names

OrderByName(names) == SortText(names)

NotLikeInternal(name) == ~Like(InternalPattern, name)

\* SELECT name FROM sqlite_master WHERE type='table'
\*   AND name NOT LIKE 'sqlite_%' ORDER BY name
CatalogQuery(db) ==
  LET all == [i \in 1..Len(db.tables) |-> db.tables[i].name]
  IN OrderByName(SelectSeq(all, NotLikeInternal))

(***************************************************************************)
(* The file system: the database file at DbPath (present or not, and its   *)
(* content), its directory (present or not) and the directory's entries.   *)
(***************************************************************************)
DataDir == <<"/","d">>

DbName == <<"a",".","d","b">>

\* path.join(directory, name)
PathJoin(directory, name) == directory \o <<"/">> \o name

DbPath == PathJoin(DataDir, DbName)

File(exists, db) == [exists |-> exists, db |-> db, dir |-> TRUE]

NoFile == File(FALSE, EmptyDatabase)

\* No file at DbPath, and no directory DataDir to hold one.
NoDir == [exists |-> FALSE, db |-> EmptyDatabase, dir |-> FALSE]

(***************************************************************************)
(* sqlite.ts: what a function returns or throws.                           *)
(***************************************************************************)
Return(v) == [ok |-> TRUE, value |-> v, err |-> NoMsg]

Throw(m) == [ok |-> FALSE, value |-> <<>>, err |-> m]

\* A connection handle: the descriptor it holds and the mode it was opened in.
Handle(id, readonly) == [id |-> id, readonly |-> readonly]

NoHandle == Handle(0, TRUE)

\* The lowest descriptor no open connection holds.
FreeId(open) == Min({ n \in 1..(Cardinality(open) + 1) : \A h \in open : h.id # n })

Opened(out, handle, file) == [out |-> out, handle |-> handle, file |-> file]

NotFoundMsg == Msg("Database file not found: ", DbPath, "")

openDbVariantWritable(file, open) ==
  IF ~file.exists
    THEN Opened(Throw(NotFoundMsg), NoHandle, file)
    ELSE Opened(Return(<<>>), Handle(FreeId(open), FALSE), file)

\* openDb: the existence check, then new Database(dbPath, { readonly: true }).
openDb(file, open) ==
  IF ~file.exists
    THEN Opened(Throw(NotFoundMsg), NoHandle, file)
    ELSE Opened(Return(<<>>), Handle(FreeId(open), TRUE), file)

\* The engine cannot create a file in a directory that does not exist.
NoDirectoryMsg ==
  Msg("Cannot open database because the directory does not exist", <<>>, "")

openDbWritableVariantChecked(file, open) ==
  IF ~file.exists
    THEN Opened(Throw(NotFoundMsg), NoHandle, file)
    ELSE Opened(Return(<<>>), Handle(FreeId(open), FALSE), file)

\* openDbWritable: new Database(path) creates the file when there is none.
openDbWritable(file, open) ==
  IF ~file.dir
    THEN Opened(Throw(NoDirectoryMsg), NoHandle, file)
    ELSE Opened(Return(<<>>), Handle(FreeId(open), FALSE),
                IF file.exists THEN file ELSE File(TRUE, EmptyDatabase))

WriteNotAllowedMsg ==
  Msg("Write operations are not allowed in read-only mode. Set readonly=false to enable writes.",
      <<>>, "")

\* Object.keys(firstRow): the result columns in the engine's order.
ColumnOrder == <<"id", "user_version", "addr", "opcode">>

IsKeyOf(row) == [c \in Range(ColumnOrder) |-> c \in DOMAIN row]

ObjectKeys(row) == SelectSeq(ColumnOrder, LAMBDA c : IsKeyOf(row)[c])

QueryResult(columns, rows, rowCount) ==
  [columns |-> columns, rows |-> rows, rowCount |-> rowCount]

RowsResultVariantSecondRow(rows) ==
  QueryResult(IF Len(rows) > 1 THEN ObjectKeys(rows[2]) ELSE <<>>, rows, Len(rows))

\* query, lines 57-60: the QueryResult of the rows of a statement.
RowsResult(rows) ==
  QueryResult(IF Len(rows) > 0 THEN ObjectKeys(rows[1]) ELSE <<>>, rows, Len(rows))

Ran(out, db, prepared) == [out |-> out, db |-> db, prepared |-> prepared]

SelectBranch(r) == Ran(IF r.ok THEN Return(RowsResult(r.rows)) ELSE Throw(r.err), r.db, 1)

ExecBranch(r) ==
  Ran(IF r.ok THEN Return(QueryResult(<<>>, <<>>, 0)) ELSE Throw(r.err), r.db, 1)

\* query, lines 55-64: the statement is run on the connection; the outcome,
\* the database after it and the number of statements handed to the engine.
QueryBody(db, handle, trimmed, isSelect) ==
  IF isSelect
    THEN SelectBranch(PrepareAll(db, handle.readonly, trimmed))
    ELSE ExecBranch(Exec(db, handle.readonly, trimmed))

\* columns.map(...) of schema and tableInfo.
ColumnInfo(c) ==
  [name |-> c.name, type |-> c.type, notnull |-> (c.notnull = 1),
   pk |-> (c.pk = 1), defaultValue |-> c.dflt_value]

MapColumns(columns) == [i \in 1..Len(columns) |-> ColumnInfo(columns[i])]

TableInfo(name, columns, rowCount) ==
  [name |-> name, columns |-> columns, rowCount |-> rowCount]

\* The TableInfo built from the two statements of a table, or the error of the
\* first of them that threw; n is the number of statements prepared before.
InfoOf(db, name, columns, n) ==
  IF ~columns.ok THEN Ran(Throw(columns.err), db, n + 1)
  ELSE IF ~CountQuery(db, Interpolate(name)).ok
    THEN Ran(Throw(CountQuery(db, Interpolate(name)).err), db, n + 2)
  ELSE Ran(Return(TableInfo(name, MapColumns(columns.rows),
                            CountQuery(db, Interpolate(name)).rows[1].count)),
           db, n + 2)

\* schema, lines 79-103: tables.map(...) over the names of the catalog query,
\* stopping at the first statement that throws.
RECURSIVE SchemaMap(_, _, _, _)
SchemaMapNext(db, names, infos, info) ==
  IF ~info.out.ok THEN info
  ELSE SchemaMap(db, Tail(names), Append(infos, info.out.value), info.prepared)

SchemaMap(db, names, infos, prepared) ==
  IF names = <<>> THEN Ran(Return(infos), db, prepared)
  ELSE SchemaMapNext(db, names, infos,
         InfoOf(db, Head(names), PragmaTableInfo(db, Interpolate(Head(names))), prepared))

SchemaInfo(tables, totalTables) == [tables |-> tables, totalTables |-> totalTables]

SchemaResult(m) ==
  IF m.out.ok
    THEN Ran(Return(SchemaInfo(m.out.value, Len(m.out.value))), m.db, m.prepared)
    ELSE m

\* schema, lines 73-105.
SchemaBody(db) == SchemaResult(SchemaMap(db, CatalogQuery(db), <<>>, 1))

\* tableInfo, lines 114-139.
TableInfoOf(db, tableName, columns) ==
  IF columns.ok /\ Len(columns.rows) = 0
    THEN Ran(Throw(Msg("Table \"", tableName, "\" not found")), db, 1)
    ELSE InfoOf(db, tableName, columns, 0)

TableInfoBody(db, tableName) ==
  TableInfoOf(db, tableName, PragmaTableInfo(db, Interpolate(tableName)))

\* The rows of EXPLAIN QUERY PLAN: a scan for a statement that reads a table,
\* nothing for the others.
PlanRows(p) ==
  IF p.kind \in {"select", "delete"} /\ ~p.explain
    THEN <<[id |-> 2, parent |-> 0, detail |-> <<"S","C","A","N"," ">> \o p.table]>>
    ELSE <<>>

PlanLine(r) == [id |-> r.id, parent |-> r.parent, detail |-> r.detail]

ExplainOf(db, words, p, compileError) ==
  IF p.explain THEN Ran(Throw(Msg("near \"", words[1], "\": syntax error")), db, 1)
  ELSE IF compileError # NoMsg THEN Ran(Throw(compileError), db, 1)
  ELSE Ran(Return([i \in 1..Len(PlanRows(p)) |-> PlanLine(PlanRows(p)[i])]), db, 1)

\* explain, lines 148-152: one `id | parent | detail` line per plan row of
\* `EXPLAIN QUERY PLAN ${sql}`.
ExplainBody(db, sql) == ExplainOf(db, Words(sql), ParseSql(sql), PrepareError(db, sql))

(***************************************************************************)
(* listDatabases (sqlite.ts lines 158-164).                                *)
(***************************************************************************)
Entry(name, isFile) == [name |-> name, isFile |-> isFile]

\* The entries of DataDir besides the database file, in directory order.
OtherEntries ==
  << Entry(<<"c",".","t","x","t">>, TRUE),
     Entry(<<"b",".","s","q","l","i","t","e">>, TRUE),
     Entry(<<"e",".","d","b">>, FALSE),
     Entry(<<"a","d","b">>, TRUE),
     Entry(<<"F",".","D","B">>, TRUE),
     Entry(<<"g">>, FALSE) >>

MissingDir == <<"/","x">>

\* The directory e.db inside DataDir, and what it holds.
SubDir == PathJoin(DataDir, <<"e",".","d","b">>)

SubEntries == << Entry(<<"n",".","s","q","l","i","t","e","3">>, TRUE) >>

\* The directory g inside DataDir: nothing in it is a database file.
PlainDir == PathJoin(DataDir, <<"g">>)

PlainEntries ==
  << Entry(<<"h",".","d","b">>, FALSE),
     Entry(<<"k",".","d","b",".","b","a","k">>, TRUE) >>

\* The working directory of the server process.
Cwd == DataDir

\* path.resolve(directory): an absolute path without a trailing separator.
Resolve(directory) ==
  IF directory = <<".">> THEN Cwd
  ELSE IF Head(directory) # "/" THEN PathJoin(Cwd, directory)
  ELSE IF Len(directory) > 1 /\ directory[Len(directory)] = "/"
    THEN SubSeq(directory, 1, Len(directory) - 1)
  ELSE directory

\* The entries of a directory that exists, in directory order.
EntriesOf(file, directory) ==
  IF directory = SubDir THEN SubEntries
  ELSE IF directory = PlainDir THEN PlainEntries
  ELSE OtherEntries \o (IF file.exists THEN <<Entry(DbName, TRUE)>> ELSE <<>>)

\* fs.readdirSync(directory, { withFileTypes: true })
ReadDir(file, directory) ==
  IF directory \notin {DataDir, SubDir, PlainDir} \/ ~file.dir
    THEN Throw(Msg("ENOENT: no such file or directory, scandir '", directory, "'"))
    ELSE Return(EntriesOf(file, directory))

DbExtensions ==
  << <<"d","b">>, <<"s","q","l","i","t","e">>, <<"s","q","l","i","t","e","3">> >>

ExtensionRegexVariantCaseSensitive(name) ==
  \E j \in 1..Len(DbExtensions) :
    LET suffix == <<".">> \o DbExtensions[j]
    IN /\ Len(name) >= Len(suffix)
       /\ SubSeq(name, Len(name) - Len(suffix) + 1, Len(name)) = suffix

\* /\.(db|sqlite|sqlite3)$/i.test(name)
ExtensionRegex(name) ==
  \E j \in 1..Len(DbExtensions) :
    LET suffix == <<".">> \o DbExtensions[j]
    IN /\ Len(name) >= Len(suffix)
       /\ UpperSeq(SubSeq(name, Len(name) - Len(suffix) + 1, Len(name))) = UpperSeq(suffix)

listDatabases(file, directory) ==
  LET entries == ReadDir(file, directory)
  IN IF ~entries.ok THEN entries
     ELSE LET kept == SelectSeq(entries.value,
                                LAMBDA e : e.isFile /\ ExtensionRegex(e.name))
          IN Return(SortText([i \in 1..Len(kept) |-> PathJoin(directory, kept[i].name)]))

(***************************************************************************)
(* The tool handlers of index.ts: the response envelope.                   *)
(***************************************************************************)
\* formatQueryResult, lines 12-17 and 18-30: which of the three renderings.
FormatQueryResult(columns, rows) ==
  IF Len(columns) = 0 /\ Len(rows) = 0 THEN [marker |-> "(No columns returned)", rows |-> <<>>]
  ELSE IF Len(columns) = 0 THEN [marker |-> "row(s) affected", rows |-> <<>>]
  ELSE [marker |-> "", rows |-> rows]

\* The text of a success response, as its fixed label and what is rendered
\* after it.
SuccessText(op, value) ==
  IF op = "query"
    THEN [label |-> "Rows: ", count |-> value.rowCount,
          body |-> FormatQueryResult(value.columns, value.rows)]
  ELSE IF op = "schema"
    THEN [label |-> "Schema: ", count |-> value.totalTables, body |-> value.tables]
  ELSE IF op = "table_info"
    THEN [label |-> "### ", count |-> value.rowCount, body |-> value]
  ELSE IF op = "explain"
    THEN [label |-> "Query plan:\n", count |-> Len(value), body |-> value]
  ELSE IF Len(value) = 0
    THEN [label |-> "No .db, .sqlite, or .sqlite3 files found in ", count |-> 0,
          body |-> value]
  ELSE [label |-> "Found ", count |-> Len(value), body |-> value]

\* `Error: ${err.message}`
ErrorText(err) == [label |-> "Error: ", count |-> 0, body |-> err]

EnvelopeVariantNoFlag(op, out) ==
  IF out.ok
    THEN [isError |-> FALSE, text |-> SuccessText(op, out.value)]
    ELSE [isError |-> FALSE, text |-> ErrorText(out.err)]

\* The return statements of a handler's try and catch blocks.
Envelope(op, out) ==
  IF out.ok
    THEN [isError |-> FALSE, text |-> SuccessText(op, out.value)]
    ELSE [isError |-> TRUE, text |-> ErrorText(out.err)]

NoResponse == [isError |-> FALSE, text |-> [label |-> "", count |-> 0, body |-> <<>>]]

(***************************************************************************)
(* Inputs.                                                                 *)
(***************************************************************************)
NameU == <<"u">>
NameSqlitex == <<"s","q","l","i","t","e","x">>
NameInternal == <<"s","q","l","i","t","e","_","s">>
NameQuote == <<"a","\"","b">>
NameQuoteDoubled == <<"a","\"","\"","b">>
NameAbsent == <<"z">>
NameT == <<"t">>

\* Tables the statements of the inputs name.
StatementTables == {NameU, NameSqlitex}

RowIds == 1..MaxRowId

Sp == <<" ">>

Digit(n) == <<DigitChars[n + 1]>>

LowerSeq(s) ==
  [i \in 1..Len(s) |-> IF IsUpper(s[i]) THEN LowerChars[IndexOf(s[i], UpperChars)] ELSE s[i]]

\* Statements of the engine dialect.
DialectInputs ==
  { KwSELECT \o Sp \o t : t \in StatementTables }
    \cup { KwINSERT \o Sp \o NameU \o Sp \o Digit(n) : n \in RowIds }
    \cup { KwDELETE \o Sp \o NameU \o Sp \o Digit(n) : n \in RowIds }
    \cup { KwCREATE \o Sp \o t : t \in StatementTables \cup {NameInternal} }
    \cup { KwWITH \o Sp \o KwINSERT \o Sp \o NameU \o Sp \o Digit(n) : n \in RowIds }
    \cup { KwPRAGMA, KwPRAGMA \o Sp \o Digit(1) }
    \cup { KwEXPLAIN \o Sp \o KwSELECT \o Sp \o NameU,
           KwEXPLAIN \o Sp \o KwINSERT \o Sp \o NameU \o Sp \o Digit(1) }

\* Spellings that exercise trim() and the gate's regular expression.
LexicalInputs ==
  { <<>>, Sp,
    LowerSeq(KwSELECT) \o Sp \o NameU,
    <<" ", "\n">> \o <<"S","e","l","e","c","t">> \o Sp \o NameU \o <<"\t", "\r">>,
    <<"\t">> \o LowerSeq(KwINSERT) \o Sp \o NameU \o Sp \o Digit(1) \o Sp,
    KwSELECT \o <<"E","D">> \o Sp \o NameU,
    KwSELECT \o <<"_">>,
    KwSELECT \o <<"1">>,
    KwSELECT \o <<"*">>,
    KwSELECT,
    KwWITH \o <<"O","U","T">>,
    LowerSeq(KwWITH) \o Sp \o LowerSeq(KwINSERT) \o Sp \o NameU \o Sp \o Digit(1),
    LowerSeq(KwPRAGMA),
    KwEXPLAIN \o <<"s">>,
    <<"(">> \o KwSELECT \o Sp \o NameU \o <<")">>,
    <<"X">> \o KwSELECT }

SqlInputs == DialectInputs \cup LexicalInputs

\* The readonly argument of the query tool: given, or left out.
ReadonlyArgs == {"true", "false", "omitted"}

TableArgs == {NameU, NameSqlitex, NameInternal, NameQuote, NameQuoteDoubled, NameAbsent}

ExplainArgs ==
  { KwSELECT \o Sp \o NameU, KwDELETE \o Sp \o NameU \o Sp \o Digit(1),
    KwINSERT \o Sp \o NameU \o Sp \o Digit(1), KwSELECT \o <<"E","D">>,
    KwEXPLAIN \o Sp \o KwSELECT \o Sp \o NameU }

DirectoryArgs ==
  {DataDir, MissingDir, SubDir, PlainDir, <<".">>, DataDir \o <<"/">>, <<"g">>}

\* Database files the server may be started on.
InitialFiles ==
  { NoFile, NoDir,
    File(TRUE, Database(<<Table(NameInternal, {1})>>, 0)),
    File(TRUE, Database(<<Table(NameQuote, {})>>, 0)),
    File(TRUE, Database(<<Table(NameU, {1}), Table(NameT, {})>>, 0)) }

(***************************************************************************)
(* State.                                                                  *)
(*   fs     the database file and its directory                            *)
(*   conns  the open connection handles of the process                     *)
(*   pc     where the handler being run stands ("idle": none is running)   *)
(*   cur    the call being handled, or the last one handled                *)
(*   resp   the response of the call in cur, once its handler returned     *)
(*   parked the calls of the event loop that are not running: requests     *)
(*          whose handler has not started, handlers waiting at an await    *)
(***************************************************************************)
NoOut == [ok |-> FALSE, value |-> <<>>, err |-> NoMsg]

Call(op, sql, raw, table, directory, file, repeat, prevOut, prevPre) ==
  [op |-> op, sql |-> sql, rawReadonly |-> raw,
   readonly |-> (raw # "false"),       \* z.boolean().default(true)
   table |-> table, directory |-> directory,
   pre |-> file, handle |-> NoHandle, opened |-> FALSE,
   trimmed |-> <<>>, isSelect |-> FALSE, gated |-> FALSE, prepared |-> 0,
   out |-> NoOut,
   repeat |-> repeat, prevOut |-> prevOut, prevPre |-> prevPre]

NoCall == Call("none", <<>>, "omitted", <<>>, <<>>, NoFile, FALSE, NoOut, NoFile)

SameRequest(c, op, sql, raw, table, directory) ==
  /\ c.op = op /\ c.sql = sql /\ c.rawReadonly = raw
  /\ c.table = table /\ c.directory = directory

Init ==
  /\ fs \in InitialFiles
  /\ conns = {}
  /\ pc = "idle"
  /\ cur = NoCall
  /\ resp = NoResponse
  /\ parked = <<>>

\* The transport hands a request to its handler.  The call remembers the
\* outcome of the call before it when that was the same request.
Receive(op, sql, raw, table, directory) ==
  /\ cur' = IF SameRequest(cur, op, sql, raw, table, directory)
              THEN Call(op, sql, raw, table, directory, fs, TRUE, cur.out, cur.pre)
              ELSE Call(op, sql, raw, table, directory, fs, FALSE, NoOut, NoFile)
  /\ pc' = IF op = "list_databases" THEN "list" ELSE "open"
  /\ resp' = NoResponse
  /\ UNCHANGED <<fs, conns>>

ReceiveQuery ==
  /\ pc = "idle"
  /\ \E sql \in SqlInputs, raw \in ReadonlyArgs : Receive("query", sql, raw, <<>>, <<>>)
  /\ UNCHANGED parked

ReceiveSchema ==
  /\ pc = "idle"
  /\ Receive("schema", <<>>, "omitted", <<>>, <<>>)
  /\ UNCHANGED parked

ReceiveTableInfo ==
  /\ pc = "idle"
  /\ \E table \in TableArgs : Receive("table_info", <<>>, "omitted", table, <<>>)
  /\ UNCHANGED parked

ReceiveExplain ==
  /\ pc = "idle"
  /\ \E sql \in ExplainArgs : Receive("explain", sql, "omitted", <<>>, <<>>)
  /\ UNCHANGED parked

ReceiveListDatabases ==
  /\ pc = "idle"
  /\ \E directory \in DirectoryArgs :
       Receive("list_databases", <<>>, "omitted", <<>>, directory)
  /\ UNCHANGED parked

\* Where control goes when the try block is left: the finally block closes
\* the connection whether the block returned or threw.
AfterTryVariantNoFinally(out) == IF out.ok THEN "close" ELSE "respond"

AfterTry(out) == "close"

\* The first line of query, schema, tableInfo and explain: the connection is
\* opened before the try block is entered.
Open ==
  /\ pc = "open"
  /\ LET o == IF cur.op = "query" /\ ~cur.readonly
                THEN openDbWritable(fs, conns)
                ELSE openDb(fs, conns)
     IN IF o.out.ok
          THEN /\ conns' = conns \cup {o.handle}
               /\ fs' = o.file
               /\ cur' = [cur EXCEPT !.handle = o.handle, !.opened = TRUE]
               /\ pc' = IF cur.op = "query" THEN "gate" ELSE "exec"
          ELSE /\ cur' = [cur EXCEPT !.out = o.out]
               /\ pc' = "respond"
               /\ UNCHANGED <<fs, conns>>
  /\ UNCHANGED <<resp, parked>>

\* query, line 49: the condition of the throw.
GateRejectsVariantWritableOnly(readonly, isSelect) == ~readonly /\ ~isSelect

GateRejects(readonly, isSelect) == readonly /\ ~isSelect

Gated(trimmed, isSelect) ==
  IF GateRejects(cur.readonly, isSelect)
    THEN /\ cur' = [cur EXCEPT !.trimmed = trimmed, !.isSelect = isSelect,
                               !.gated = TRUE, !.out = Throw(WriteNotAllowedMsg)]
         /\ pc' = AfterTry(Throw(WriteNotAllowedMsg))
    ELSE /\ cur' = [cur EXCEPT !.trimmed = trimmed, !.isSelect = isSelect,
                               !.gated = TRUE]
         /\ pc' = "exec"

\* query, lines 46-53.
Gate ==
  /\ pc = "gate"
  /\ Gated(Trim(cur.sql), SelectRegex(Trim(cur.sql)))
  /\ UNCHANGED <<fs, conns, resp, parked>>

\* The try block ends with what the body ran to.
Finish(b) ==
  /\ fs' = [fs EXCEPT !.db = b.db]
  /\ cur' = [cur EXCEPT !.out = b.out, !.prepared = b.prepared]
  /\ pc' = AfterTry(b.out)
  /\ UNCHANGED <<conns, resp, parked>>

\* query, lines 55-64.
ExecQuery ==
  /\ pc = "exec" /\ cur.op = "query"
  /\ Finish(QueryBody(fs.db, cur.handle, cur.trimmed, cur.isSelect))

\* schema, lines 73-105.
ExecSchema ==
  /\ pc = "exec" /\ cur.op = "schema"
  /\ Finish(SchemaBody(fs.db))

\* tableInfo, lines 114-139.
ExecTableInfo ==
  /\ pc = "exec" /\ cur.op = "table_info"
  /\ Finish(TableInfoBody(fs.db, cur.table))

\* explain, lines 148-152.
ExecExplain ==
  /\ pc = "exec" /\ cur.op = "explain"
  /\ Finish(ExplainBody(fs.db, cur.sql))

\* The finally block: db.close().
Close ==
  /\ pc = "close"
  /\ conns' = conns \ {cur.handle}
  /\ pc' = "respond"
  /\ UNCHANGED <<fs, cur, resp, parked>>

\* The list_databases handler: the directory is resolved, then listed.
ListDatabases ==
  /\ pc = "list"
  /\ cur' = [cur EXCEPT !.out = listDatabases(fs, Resolve(cur.directory))]
  /\ pc' = "respond"
  /\ UNCHANGED <<fs, conns, resp, parked>>

\* The handler returns: the value of its try block, or of its catch block
\* when the call threw.
Respond ==
  /\ pc = "respond"
  /\ resp' = Envelope(cur.op, cur.out)
  /\ pc' = "idle"
  /\ UNCHANGED <<fs, conns, cur, parked>>

Next ==
  \/ ReceiveQuery
  \/ ReceiveSchema
  \/ ReceiveTableInfo
  \/ ReceiveExplain
  \/ ReceiveListDatabases
  \/ Open
  \/ Gate
  \/ ExecQuery
  \/ ExecSchema
  \/ ExecTableInfo
  \/ ExecExplain
  \/ Close
  \/ ListDatabases
  \/ Respond

Spec == Init /\ [][Next]_vars

(***************************************************************************)
(* Requests delivered concurrently.  The transport may hand over a request *)
(* while earlier ones are still in the event loop; a handler is an async   *)
(* function, so it gives up the thread only where it awaits and when it    *)
(* returns, its response being written once its promise has settled.       *)
(***************************************************************************)
\* Calls that may be in the event loop at once.
MaxInFlight == 2

Request(op, sql, raw, table, directory) ==
  [op |-> op, sql |-> sql, raw |-> raw, table |-> table, directory |-> directory]

ConcurrentRequests ==
  { Request("query", KwINSERT \o Sp \o NameU \o Sp \o Digit(2), "false", <<>>, <<>>),
    Request("schema", <<>>, "omitted", <<>>, <<>>),
    Request("table_info", <<>>, "omitted", NameU, <<>>),
    Request("explain", KwSELECT \o Sp \o NameU, "omitted", <<>>, <<>>),
    Request("list_databases", <<>>, "omitted", <<>>, <<".">>) }

\* A call that is not running: where it stands, the request when its
\* handler has not started, the call when it has.
Parked(at, req, call) == [at |-> at, req |-> req, call |-> call]

AwaitsVariantAfterOpen(at) == at \in {"gate", "exec", "respond"}

\* The positions at which a running handler gives up the thread: its body
\* holds no await, so only its return does.
Awaits(at) == at = "respond"

InitConcurrent ==
  /\ fs = File(TRUE, Database(<<Table(NameU, {1}), Table(NameT, {})>>, 0))
  /\ conns = {}
  /\ pc = "idle"
  /\ cur = NoCall
  /\ resp = NoResponse
  /\ parked = <<>>

\* A request arrives, whatever the process is doing, and its handler is
\* scheduled; the calls in the event loop are the running one and the
\* parked ones.
Deliver ==
  /\ Len(parked) + (IF pc = "idle" THEN 0 ELSE 1) < MaxInFlight
  /\ \E req \in ConcurrentRequests :
       parked' = Append(parked, Parked("start", req, NoCall))
  /\ UNCHANGED <<fs, conns, pc, cur, resp>>

\* The thread is free: a scheduled handler starts.
Start ==
  /\ pc = "idle"
  /\ \E i \in 1..Len(parked) :
       /\ parked[i].at = "start"
       /\ Receive(parked[i].req.op, parked[i].req.sql, parked[i].req.raw,
                  parked[i].req.table, parked[i].req.directory)
       /\ parked' = SubSeq(parked, 1, i - 1) \o SubSeq(parked, i + 1, Len(parked))

\* The running handler gives up the thread.
Yield ==
  /\ pc # "idle" /\ Awaits(pc)
  /\ parked' = Append(parked, Parked(pc, Request("none", <<>>, "omitted", <<>>, <<>>), cur))
  /\ pc' = "idle"
  /\ UNCHANGED <<fs, conns, cur, resp>>

\* The thread is free: a handler that gave it up goes on where it stood.
Resume ==
  /\ pc = "idle"
  /\ \E i \in 1..Len(parked) :
       /\ parked[i].at # "start"
       /\ cur' = parked[i].call
       /\ pc' = parked[i].at
       /\ parked' = SubSeq(parked, 1, i - 1) \o SubSeq(parked, i + 1, Len(parked))
  /\ UNCHANGED <<fs, conns, resp>>

NextConcurrent ==
  \/ Deliver
  \/ Start
  \/ Open
  \/ Gate
  \/ ExecQuery
  \/ ExecSchema
  \/ ExecTableInfo
  \/ ExecExplain
  \/ Close
  \/ ListDatabases
  \/ Yield
  \/ Resume
  \/ Respond

SpecConcurrent == InitConcurrent /\ [][NextConcurrent]_vars

(***************************************************************************)
(* Properties.                                                             *)
(***************************************************************************)
\* A handler has returned its response for the call in cur.
Finished(op) == pc = "idle" /\ cur.op = op

\* The sqlite.ts function of the call in cur has returned or thrown.
Returned == pc \in {"respond", "idle"} /\ cur.op # "none"

\* The text is classified Mutating by the gate.
Mutating(sql) == ~SelectRegex(Trim(sql))

\* The two errors the program itself raises around the gate.
IsEngineError(err) == err # NoMsg /\ err # WriteNotAllowedMsg /\ err # NotFoundMsg

SameOutcome(a, b) ==
  /\ a.ok = b.ok
  /\ a.ok => a.value = b.value
  /\ ~a.ok => a.err = b.err

\* C1: once query, schema, table_info or explain has returned or thrown
\* (success, gate rejection, table not found, engine error), no connection is
\* open: the connection the call opened has been closed.
C1_ConnectionClosedOnEveryExit == Returned => conns = {}

\* A call that opened a connection and then failed in the engine has returned.
C1_Witness ==
  /\ Returned /\ cur.opened /\ ~cur.out.ok /\ cur.prepared > 0
  /\ IsEngineError(cur.out.err)

\* C2 as stated: every Mutating statement run with readonly true (or left
\* out) fails with the write-not-allowed error, nothing prepared, the
\* database unchanged.
C2_AsStated ==
  (Finished("query") /\ cur.readonly /\ Mutating(cur.sql)) =>
    /\ ~cur.out.ok /\ cur.out.err = WriteNotAllowedMsg
    /\ cur.prepared = 0
    /\ fs = cur.pre

\* C2, amended: the write-not-allowed error is the outcome when the database
\* file exists; when it does not, the call fails with the not-found error
\* instead.  In both cases nothing is prepared or executed and the database
\* file is as it was.
C2_MutatingRejectedWhenFileExists ==
  (Finished("query") /\ cur.readonly /\ Mutating(cur.sql)) =>
    /\ ~cur.out.ok
    /\ cur.pre.exists => cur.out.err = WriteNotAllowedMsg
    /\ ~cur.pre.exists => cur.out.err = NotFoundMsg
    /\ cur.prepared = 0
    /\ fs = cur.pre

\* An INSERT into an existing table, readonly left out, was rejected.
C2_Witness ==
  /\ Finished("query") /\ cur.rawReadonly = "omitted" /\ Mutating(cur.sql)
  /\ ParseSql(cur.sql).kind = "insert" /\ HasTable(cur.pre.db, ParseSql(cur.sql).table)
  /\ cur.out.err = WriteNotAllowedMsg

\* C3: a statement that passes the gate with readonly true runs on a
\* read-only connection; the call returns a QueryResult or fails with an
\* engine error, the database file is as it was before the call, and the same
\* call repeated on the unchanged database has the same outcome.
C3_ReadonlyQueryLeavesDatabase ==
  (Finished("query") /\ cur.readonly /\ cur.gated /\ cur.isSelect) =>
    /\ cur.handle.readonly
    /\ cur.out.ok \/ IsEngineError(cur.out.err)
    /\ cur.prepared = 1
    /\ fs = cur.pre
    /\ (cur.repeat /\ cur.prevPre = cur.pre) => SameOutcome(cur.out, cur.prevOut)

\* A WITH text carrying an INSERT that would have succeeded on a writable
\* connection was run a second time, and refused by the engine.
C3_Witness ==
  /\ Finished("query") /\ cur.readonly /\ cur.isSelect /\ cur.repeat
  /\ ParseSql(cur.trimmed).kind = "cte_insert"
  /\ HasTable(fs.db, NameU) /\ ParseSql(cur.trimmed).id \notin RowsOf(fs.db, NameU)
  /\ cur.out.err = ReadonlyDatabaseMsg

\* t is s without its leading and trailing white space.
IsTrimOf(t, s) ==
  \E i \in 0..Len(s), j \in 0..Len(s) :
    /\ i + j <= Len(s)
    /\ t = SubSeq(s, i + 1, Len(s) - j)
    /\ \A k \in 1..i : IsWhiteSpace(s[k])
    /\ \A k \in (Len(s) - j + 1)..Len(s) : IsWhiteSpace(s[k])
    /\ t # <<>> => ~IsWhiteSpace(t[1]) /\ ~IsWhiteSpace(t[Len(t)])

\* t starts with the keyword k, letters compared without case.
StartsWithKeyword(t, k) == Len(t) >= Len(k) /\ UpperSeq(SubSeq(t, 1, Len(k))) = k

\* C4 as stated: ReadOnlySafe exactly when the trimmed text starts with one
\* of the four keywords.
C4_AsStated ==
  cur.gated =>
    (cur.isSelect <=> \E k \in Range(GateKeywords) : StartsWithKeyword(cur.trimmed, k))

\* C4, amended: ReadOnlySafe exactly when the trimmed text starts, without
\* regard to case, with one of the four keywords and the keyword is a whole
\* word: the text ends after it, or the next character is not a letter, a
\* digit or an underscore.  Every other text is Mutating.
C4_GateIsWholeKeywordPrefix ==
  cur.gated =>
    /\ IsTrimOf(cur.trimmed, cur.sql)
    /\ cur.isSelect <=>
         \E k \in Range(GateKeywords) :
           /\ StartsWithKeyword(cur.trimmed, k)
           /\ \/ Len(cur.trimmed) = Len(k)
              \/ ~IsWordChar(cur.trimmed[Len(k) + 1])

\* A text with surrounding white space and a keyword not in upper case was
\* classified ReadOnlySafe.
C4_Witness ==
  /\ cur.gated /\ cur.isSelect
  /\ cur.sql # cur.trimmed /\ IsLower(cur.trimmed[2])

\* C5: every handler returns a response; it carries the error flag and the
\* text "Error: " followed by the message of what was thrown exactly when the
\* call threw, and is a success response without the flag otherwise.
C5_UniformEnvelope ==
  (pc = "idle" /\ cur.op # "none") =>
    /\ resp.isError <=> ~cur.out.ok
    /\ ~cur.out.ok => resp.text.label = "Error: " /\ resp.text.body = cur.out.err
                        /\ cur.out.err # NoMsg
    /\ cur.out.ok => resp.text.label # "Error: "

\* The directory of list_databases could not be read.
C5_Witness ==
  /\ Finished("list_databases") /\ resp.isError
  /\ resp.text.body.pre = "ENOENT: no such file or directory, scandir '"

\* The ids of the rows of a QueryResult.
ResultIds(result) == { result.rows[i].id : i \in 1..Len(result.rows) }

\* C6: a Mutating statement the engine accepts with readonly false returns
\* empty columns, empty rows and rowCount 0, and its effect is in the database
\* file when the call ends (an inserted row is there, a deleted row is not, a
\* created table exists); a later SELECT with readonly true returns exactly
\* the rows the file holds at that time, so it sees the inserted row and no
\* longer sees the deleted one.
C6_WritesVisibleToLaterCalls ==
  /\ (Finished("query") /\ ~cur.readonly /\ ~cur.isSelect /\ cur.out.ok) =>
       /\ cur.out.value = QueryResult(<<>>, <<>>, 0)
       /\ ParseSql(cur.trimmed).kind = "insert" =>
            /\ ParseSql(cur.trimmed).id \in RowsOf(fs.db, ParseSql(cur.trimmed).table)
            /\ ParseSql(cur.trimmed).id \notin RowsOf(cur.pre.db, ParseSql(cur.trimmed).table)
       /\ ParseSql(cur.trimmed).kind = "delete" =>
            ParseSql(cur.trimmed).id \notin RowsOf(fs.db, ParseSql(cur.trimmed).table)
       /\ ParseSql(cur.trimmed).kind = "create" =>
            HasTable(fs.db, ParseSql(cur.trimmed).table)
  /\ (Finished("query") /\ cur.readonly /\ cur.out.ok
        /\ ParseSql(cur.trimmed).kind = "select" /\ ~ParseSql(cur.trimmed).explain) =>
       /\ ResultIds(cur.out.value) = RowsOf(fs.db, ParseSql(cur.trimmed).table)
       /\ cur.out.value.rowCount = Cardinality(RowsOf(fs.db, ParseSql(cur.trimmed).table))

\* A SELECT with readonly true returned a row that only an earlier INSERT
\* with readonly false can have written.
C6_Witness ==
  /\ Finished("query") /\ cur.readonly /\ cur.out.ok
  /\ ParseSql(cur.trimmed).kind = "select" /\ ~ParseSql(cur.trimmed).explain
  /\ \E i \in 1..Len(cur.out.value.rows) : cur.out.value.rows[i].id > 1

\* C7 as stated: on an opened database, table_info of a name that is no
\* table of the catalog fails with 'Table "<name>" not found', and of a name
\* that is one returns its columns (not empty) and its COUNT(*).
C7_AsStated ==
  (Finished("table_info") /\ cur.opened) =>
    IF HasTable(cur.pre.db, cur.table)
      THEN /\ cur.out.ok
           /\ cur.out.value.name = cur.table
           /\ Len(cur.out.value.columns) > 0
           /\ cur.out.value.rowCount = Cardinality(RowsOf(fs.db, cur.table))
      ELSE /\ ~cur.out.ok
           /\ cur.out.err = Msg("Table \"", cur.table, "\" not found")

\* The user tables of a database: those whose name does not start with the
\* prefix the engine reserves for its own tables.
UserTables(db) ==
  { db.tables[i].name : i \in { j \in 1..Len(db.tables) : ~IsReservedName(db.tables[j].name) } }

\* C8 as stated: the names schema returns are exactly the user tables of the
\* catalog, each with the row count of the table.
C8_AsStated ==
  (Finished("schema") /\ cur.out.ok) =>
    /\ { cur.out.value.tables[i].name : i \in 1..Len(cur.out.value.tables) }
         = UserTables(fs.db)
    /\ \A i \in 1..Len(cur.out.value.tables) :
         cur.out.value.tables[i].rowCount
           = Cardinality(RowsOf(fs.db, cur.out.value.tables[i].name))

\* C9: in every SchemaInfo schema returns, totalTables is the length of
\* tables and the table names are strictly ascending.
C9_SchemaCountedAndSorted ==
  (Finished("schema") /\ cur.out.ok) =>
    /\ cur.out.value.totalTables = Len(cur.out.value.tables)
    /\ \A i \in 1..(Len(cur.out.value.tables) - 1) :
         LexLess(cur.out.value.tables[i].name, cur.out.value.tables[i + 1].name)

\* schema returned two tables whose creation order is not their name order.
C9_Witness ==
  /\ Finished("schema") /\ cur.out.ok
  /\ Len(cur.out.value.tables) > 1
  /\ LexLess(fs.db.tables[2].name, fs.db.tables[1].name)

\* C10 as stated: rowCount is the length of rows, and columns is empty exactly
\* when the statement produced no row-returning result set (it was executed
\* for effect), rows being empty then.
C10_AsStated ==
  (Finished("query") /\ cur.out.ok) =>
    /\ cur.out.value.rowCount = Len(cur.out.value.rows)
    /\ cur.out.value.columns = <<>> <=> ~(cur.isSelect /\ IsReader(ParseSql(cur.trimmed)))
    /\ cur.out.value.columns = <<>> => cur.out.value.rows = <<>>

\* C10, amended: rowCount is the length of rows, and columns is empty exactly
\* when rows is empty: when the statement was executed for effect, and also
\* when a row-returning statement returned no row.  When there are rows,
\* columns holds the keys of the first row.
C10_ColumnsEmptyIffNoRows ==
  (Finished("query") /\ cur.out.ok) =>
    /\ cur.out.value.rowCount = Len(cur.out.value.rows)
    /\ cur.out.value.columns = <<>> <=> cur.out.value.rows = <<>>
    /\ ~cur.isSelect => cur.out.value.rows = <<>>
    /\ cur.out.value.rows # <<>> =>
         Range(cur.out.value.columns) = DOMAIN cur.out.value.rows[1]

\* A SELECT on a table without rows returned empty columns.
C10_Witness ==
  /\ Finished("query") /\ cur.out.ok /\ cur.isSelect
  /\ ParseSql(cur.trimmed).kind = "select"
  /\ cur.out.value.columns = <<>> /\ cur.out.value.rowCount = 0

\* The name ends, letter case aside, in one of .db, .sqlite, .sqlite3.
HasDatabaseExtension(name) ==
  \E ext \in { <<".","d","b">>, <<".","s","q","l","i","t","e">>,
                <<".","s","q","l","i","t","e","3">> } :
    /\ Len(name) >= Len(ext)
    /\ \A k \in 1..Len(ext) : Upper(name[Len(name) - Len(ext) + k]) = Upper(ext[k])

\* The paths list_databases is to return for a directory: one for each of
\* its own entries that is a regular file with a database extension.
DatabasePaths(file, directory) ==
  LET entries == EntriesOf(file, directory)
  IN { PathJoin(directory, entries[i].name) :
         i \in { j \in 1..Len(entries) :
                   entries[j].isFile /\ HasDatabaseExtension(entries[j].name) } }

\* C11: what list_databases returns for a directory is exactly the paths of
\* the directory's own entries that are regular files named *.db, *.sqlite
\* or *.sqlite3 in any letter case, each the directory joined with the entry
\* name, in strictly ascending order; nothing else appears, and the result
\* is empty when no entry qualifies.
C11_ListsDatabaseFilesSorted ==
  (Finished("list_databases") /\ cur.out.ok) =>
    /\ Range(cur.out.value) = DatabasePaths(fs, Resolve(cur.directory))
    /\ \A i \in 1..(Len(cur.out.value) - 1) :
         LexLess(cur.out.value[i], cur.out.value[i + 1])

\* list_databases on the working directory, which holds an upper-case
\* database name, a directory named like a database and other files,
\* returned three paths whose directory order is not their sorted order.
C11_Witness ==
  /\ Finished("list_databases") /\ cur.out.ok
  /\ cur.directory = <<".">> /\ fs.exists
  /\ cur.out.value = << PathJoin(DataDir, <<"F",".","D","B">>),
                        PathJoin(DataDir, DbName),
                        PathJoin(DataDir, <<"b",".","s","q","l","i","t","e">>) >>

\* The call in cur opens its connection with openDb.
OnReadPath ==
  \/ cur.op \in {"schema", "table_info", "explain"}
  \/ cur.op = "query" /\ cur.readonly

\* The call in cur threw the not-found error; it opened no connection and
\* the file system is as it was.
NotFoundOutcome ==
  /\ ~cur.out.ok /\ cur.out.err = NotFoundMsg
  /\ ~cur.opened /\ conns = {} /\ fs = cur.pre

\* C12 as stated: a call fails with the not-found error exactly when it is
\* on the read path and there is no file at the path, no connection opened
\* and no file created then; a query with readonly false on a path without a
\* file opens a read-write connection and the file is created.
C12_AsStated ==
  Returned =>
    /\ (~cur.out.ok /\ cur.out.err = NotFoundMsg) <=> (OnReadPath /\ ~cur.pre.exists)
    /\ (OnReadPath /\ ~cur.pre.exists) => NotFoundOutcome
    /\ (cur.op = "query" /\ ~cur.readonly /\ ~cur.pre.exists) =>
         /\ cur.opened /\ ~cur.handle.readonly
         /\ fs.exists

\* C12, amended: as stated for the not-found error; a query with readonly
\* false on a path without a file opens a read-write connection and creates
\* the file when the directory of the path exists, and when it does not, the
\* call fails with the engine's error (not the not-found error), opens no
\* connection and creates no file.
C12_NotFoundOnlyOnReadPath ==
  Returned =>
    /\ (~cur.out.ok /\ cur.out.err = NotFoundMsg) <=> (OnReadPath /\ ~cur.pre.exists)
    /\ (OnReadPath /\ ~cur.pre.exists) => NotFoundOutcome
    /\ (cur.op = "query" /\ ~cur.readonly /\ ~cur.pre.exists /\ cur.pre.dir) =>
         /\ cur.opened /\ ~cur.handle.readonly
         /\ fs.exists /\ fs.dir
    /\ (cur.op = "query" /\ ~cur.readonly /\ ~cur.pre.dir) =>
         /\ ~cur.out.ok /\ cur.out.err = NoDirectoryMsg
         /\ ~cur.opened /\ conns = {} /\ fs = cur.pre

\* A query with readonly false named a path without a file, in a directory
\* that exists: the file was created, and the statement, a SELECT on a table
\* the new file does not have, failed in the engine.
C12_Witness ==
  /\ Finished("query") /\ ~cur.readonly /\ ~cur.pre.exists /\ cur.pre.dir
  /\ cur.opened /\ fs.exists /\ fs.db = EmptyDatabase
  /\ cur.isSelect /\ ~cur.out.ok /\ cur.out.err # NotFoundMsg

\* C13: with requests delivered concurrently, at most one connection is open
\* at any instant, it belongs to the running handler, and no handler that is
\* not running stands between its open and its close: the engine operations
\* of two calls never interleave.
C13_OneConnectionAtATime ==
  /\ Cardinality(conns) <= 1
  /\ conns # {} => pc \in {"gate", "exec", "close"} /\ conns = {cur.handle}
  /\ \A i \in 1..Len(parked) : parked[i].at \in {"start", "respond"}

\* A handler holds its connection while the handler of another call has
\* returned and its response is not written yet.
C13_Witness ==
  /\ pc = "exec" /\ conns = {cur.handle} /\ ~cur.handle.readonly
  /\ \E i \in 1..Len(parked) :
       /\ parked[i].at = "respond" /\ parked[i].call.opened
       /\ parked[i].call.op = "schema"

====
